---- MODULE Spec2Model ----
(***************************************************************************)
(* A model of the XMLTV programme parser (src/xmltv_parser.py):            *)
(*   - parse_xmltv_datetime, the multi-precision timestamp normalizer,     *)
(*   - _parse_programme / _text_or_none, the field extractor,              *)
(*   - iter_parse, the streaming walker driven by ET.iterparse.            *)
(*                                                                         *)
(* Strings are sequences of one-character strings, so that trimming,       *)
(* matching and digit conversion are computed and not assumed.  An         *)
(* optional value (Python's None or a value) is a sequence of length 0     *)
(* or 1: None == <<>>, Some(x) == <<x>>.                                   *)
(***************************************************************************)
EXTENDS Integers, Sequences, FiniteSets, TLC

VARIABLES
    pc,         \* position of the generator / of the call under check
    handle,     \* the source file handle: "none", "open", "closed"
    err,        \* the exception that ended the walk, "" when none
    src,        \* the tokens read from the source so far (history)
    stack,      \* TreeBuilder's stack of open element ids
    heap,       \* the element objects, indexed by id
    queue,      \* XMLPullParser's event queue
    root,       \* iter_parse's local `root` (0 is None)
    cur,        \* the element whose record the generator is suspended on
    records,    \* the records yielded so far, in order
    processed,  \* iter_parse's local `processed`
    feeding,    \* TRUE while the chunk that filled the queue is still being fed
    value,      \* argument of parse_xmltv_datetime under check
    result      \* its outcome: [raised, val]

vars == <<pc, handle, err, src, stack, heap, queue, root, cur, records,
          processed, feeding, value, result>>

-----------------------------------------------------------------------------
(* Optional values and characters                                          *)

None == <<>>
Some(x) == <<x>>

Digits == {"0", "1", "2", "3", "4", "5", "6", "7", "8", "9"}

\* The one character U+FF15 (FULLWIDTH DIGIT FIVE), a decimal digit that is
\* not an ASCII digit.
WideFive == "U+FF15"

\* The regex class \d of a str pattern: every Unicode decimal digit.
DecimalDigits == Digits \cup {WideFive}

\* str.strip() and the regex class \s both treat these as whitespace.
Whitespace == {" ", "\t"}

DigitVal(c) ==
    CASE c = "0" -> 0 [] c = "1" -> 1 [] c = "2" -> 2 [] c = "3" -> 3
      [] c = "4" -> 4 [] c = "5" -> 5 [] c = "6" -> 6 [] c = "7" -> 7
      [] c = "8" -> 8 [] c = "9" -> 9 [] c = WideFive -> 5

RECURSIVE ToInt(_)
\* int() of a string of decimal digits
ToInt(s) ==
    IF s = <<>> THEN 0
    ELSE 10 * ToInt(SubSeq(s, 1, Len(s) - 1)) + DigitVal(s[Len(s)])

RECURSIVE LStrip(_)
LStrip(s) ==
    IF s # <<>> /\ Head(s) \in Whitespace THEN LStrip(Tail(s)) ELSE s

RECURSIVE RStrip(_)
RStrip(s) ==
    IF s # <<>> /\ s[Len(s)] \in Whitespace
    THEN RStrip(SubSeq(s, 1, Len(s) - 1)) ELSE s

\* str.strip()
Strip(s) == LStrip(RStrip(s))

-----------------------------------------------------------------------------
(* parse_xmltv_datetime                                                    *)

RECURSIVE DigitPrefixLen(_)
\* how many leading characters of s match \d
DigitPrefixLen(s) ==
    IF s # <<>> /\ Head(s) \in DecimalDigits THEN 1 + DigitPrefixLen(Tail(s)) ELSE 0

\* the digit counts the stamp group of _XMLTV_DATETIME_RE can take
StampLengths == {8, 10, 12, 14}

NoMatch == [ok |-> FALSE, stamp |-> <<>>, tz |-> None]

\* _XMLTV_DATETIME_RE.match: ^(stamp)(?:\s+(tz))?$ .  The stamp group is
\* followed by whitespace or the end, so it is the whole leading digit run.
ReMatch(s) ==
    LET p == DigitPrefixLen(s)
        rest == SubSeq(s, p + 1, Len(s))
        gap == Len(rest) - Len(LStrip(rest))
        tz == LStrip(rest)
    IN  IF p \notin StampLengths THEN NoMatch
        ELSE IF rest = <<>>
             THEN [ok |-> TRUE, stamp |-> SubSeq(s, 1, p), tz |-> None]
        ELSE IF /\ gap >= 1
                /\ Len(tz) = 5
                /\ tz[1] \in {"+", "-"}
                /\ \A i \in 2..5 : tz[i] \in DecimalDigits
             THEN [ok |-> TRUE, stamp |-> SubSeq(s, 1, p), tz |-> Some(tz)]
        ELSE NoMatch

IsLeap(y) == (y % 4 = 0 /\ y % 100 # 0) \/ y % 400 = 0

\* the calendar rule of the datetime constructor
DaysInMonth(y, m) ==
    IF m = 2 THEN (IF IsLeap(y) THEN 29 ELSE 28)
    ELSE IF m \in {4, 6, 9, 11} THEN 30 ELSE 31

\* the two digits of the k-th field after the year (k = 1 is the month)
FieldDigits(stamp, k) == SubSeq(stamp, 3 + 2 * k, 4 + 2 * k)

\* the value of the k-th field, or the default of a field the format lacks
FieldOr(stamp, k, default) ==
    IF Len(stamp) >= 4 + 2 * k THEN ToInt(FieldDigits(stamp, k)) ELSE default

\* the two-character alternatives of the patterns _strptime gives the
\* directives; the stamp group leaves each field exactly two characters.
\* Only the positions written \d take a non-ASCII decimal digit.
MonthPattern(p) ==
    \/ p[1] = "1" /\ p[2] \in {"0", "1", "2"}
    \/ p[1] = "0" /\ p[2] \in Digits \ {"0"}

DayPattern(p) ==
    \/ p[1] = "3" /\ p[2] \in {"0", "1"}
    \/ p[1] \in {"1", "2"} /\ p[2] \in DecimalDigits
    \/ p[1] = "0" /\ p[2] \in Digits \ {"0"}

HourPattern(p) ==
    \/ p[1] = "2" /\ p[2] \in {"0", "1", "2", "3"}
    \/ p[1] \in {"0", "1"} /\ p[2] \in DecimalDigits

MinutePattern(p) ==
    p[1] \in {"0", "1", "2", "3", "4", "5"} /\ p[2] \in DecimalDigits

SecondPattern(p) ==
    \/ p[1] = "6" /\ p[2] \in {"0", "1"}
    \/ MinutePattern(p)

\* %z on [+-]HHMM: the hours are \d\d, the minutes [0-5]\d
ZonePattern(tz) ==
    /\ tz[2] \in DecimalDigits /\ tz[3] \in DecimalDigits
    /\ MinutePattern(SubSeq(tz, 4, 5))

\* the k-th field is lacking or matches its directive's pattern
FieldMatches(stamp, k) ==
    Len(stamp) >= 4 + 2 * k =>
        LET p == FieldDigits(stamp, k)
        IN  CASE k = 1 -> MonthPattern(p)
              [] k = 2 -> DayPattern(p)
              [] k = 3 -> HourPattern(p)
              [] k = 4 -> MinutePattern(p)
              [] k = 5 -> SecondPattern(p)

\* the offset in minutes that %z reads from [+-]HHMM
TzMinutes(tz) ==
    (IF tz[1] = "-" THEN -1 ELSE 1)
        * (60 * ToInt(SubSeq(tz, 2, 3)) + ToInt(SubSeq(tz, 4, 5)))

StrptimeError == [ok |-> FALSE, dt |-> None]

\* datetime.strptime(stamp [+ " " + tz], fmt [+ " %z"]) for the format
\* chosen by len(stamp): the directives' patterns (%Y is \d\d\d\d), int() of
\* the matched fields, then the datetime and timezone constructors' range
\* checks.  ok = FALSE is ValueError.
Strptime(stamp, tz) ==
    LET y == ToInt(SubSeq(stamp, 1, 4))
        mo == FieldOr(stamp, 1, 1)
        d == FieldOr(stamp, 2, 1)
        h == FieldOr(stamp, 3, 0)
        mi == FieldOr(stamp, 4, 0)
        s == FieldOr(stamp, 5, 0)
        patterns == /\ \A k \in 1..5 : FieldMatches(stamp, k)
                    /\ tz # None => ZonePattern(tz[1])
        constructed == /\ y >= 1
                       /\ d <= DaysInMonth(y, mo)
                       /\ s <= 59
                       /\ tz # None =>
                            (TzMinutes(tz[1]) > -1440 /\ TzMinutes(tz[1]) < 1440)
    IN  IF patterns /\ constructed
        THEN [ok |-> TRUE,
              dt |-> Some([year |-> y, month |-> mo, day |-> d, hour |-> h,
                           minute |-> mi, second |-> s,
                           tz |-> IF tz = None THEN None
                                  ELSE Some(TzMinutes(tz[1]))])]
        ELSE StrptimeError

Returned(v) == [raised |-> FALSE, val |-> v]
Raised == [raised |-> TRUE, val |-> None]

\* A mutant of parse_xmltv_datetime: the except clause is missing, so
\* strptime's ValueError escapes.
parse_xmltv_datetime_uncaught(v) ==
    IF v = None \/ v[1] = <<>> THEN Returned(None)
    ELSE LET m == ReMatch(Strip(v[1]))
         IN  IF ~m.ok THEN Returned(None)
             ELSE IF Len(m.stamp) \notin {8, 10, 12, 14} THEN Returned(None)
             ELSE LET r == Strptime(m.stamp, m.tz)
                  IN  IF r.ok THEN Returned(r.dt) ELSE Raised

\* XMLTVParser.parse_xmltv_datetime
parse_xmltv_datetime(v) ==
    IF v = None \/ v[1] = <<>> THEN Returned(None)
    ELSE LET m == ReMatch(Strip(v[1]))
         IN  IF ~m.ok THEN Returned(None)
             ELSE IF Len(m.stamp) \notin {8, 10, 12, 14} THEN Returned(None)
             ELSE LET r == Strptime(m.stamp, m.tz)
                  IN  IF r.ok THEN Returned(r.dt) ELSE Returned(None)

-----------------------------------------------------------------------------
(* Elements (xml.etree.ElementTree.Element) and the field extractor        *)

NoAttrib == [channel |-> None, start |-> None, stop |-> None]

Element(tag, attrib, text) ==
    [tag |-> tag, attrib |-> attrib, text |-> text, children |-> <<>>]

\* the record fields filled from a child element's text, and the child's tag
FieldTag ==
    [title |-> "title", sub_title |-> "sub-title", description |-> "desc",
     date |-> "date", category |-> "category", keyword |-> "keyword",
     language |-> "language", orig_language |-> "orig-language",
     length |-> "length", country |-> "country",
     episode_num |-> "episode-num", premiere |-> "premiere",
     last_chance |-> "last-chance"]

TextFields == DOMAIN FieldTag

RECURSIVE FirstWithTag(_, _, _)
FirstWithTag(h, kids, tag) ==
    IF kids = <<>> THEN 0
    ELSE IF h[Head(kids)].tag = tag THEN Head(kids)
    ELSE FirstWithTag(h, Tail(kids), tag)

RECURSIVE LastWithTag(_, _, _)
LastWithTag(h, kids, tag) ==
    IF kids = <<>> THEN 0
    ELSE IF h[kids[Len(kids)]].tag = tag THEN kids[Len(kids)]
    ELSE LastWithTag(h, SubSeq(kids, 1, Len(kids) - 1), tag)

\* A mutant of find: the last matching child instead of the first.
find_last(h, el, tag) == LastWithTag(h, h[el].children, tag)

\* Element.find(tag): the first direct child with that tag, 0 for None
find(h, el, tag) == FirstWithTag(h, h[el].children, tag)

\* XMLTVParser._text_or_none (el = 0 is None)
_text_or_none(h, el) ==
    IF el = 0 \/ h[el].text = None THEN None
    ELSE LET text == Strip(h[el].text[1])
         IN  IF text = <<>> THEN None ELSE Some(text)

\* XMLTVParser._parse_programme: the record, or raised when a call it makes
\* raises
_parse_programme(h, el) ==
    LET start_raw == h[el].attrib.start
        stop_raw == h[el].attrib.stop
        start_dt == parse_xmltv_datetime(start_raw)
        stop_dt == parse_xmltv_datetime(stop_raw)
        texts == [f \in TextFields |-> _text_or_none(h, find(h, el, FieldTag[f]))]
    IN  [raised |-> start_dt.raised \/ stop_dt.raised,
         rec |-> [channel |-> h[el].attrib.channel,
                  start |-> start_raw,
                  start_dt |-> start_dt.val,
                  stop |-> stop_raw,
                  stop_dt |-> stop_dt.val,
                  title |-> texts["title"],
                  sub_title |-> texts["sub_title"],
                  description |-> texts["description"],
                  date |-> texts["date"],
                  category |-> texts["category"],
                  keyword |-> texts["keyword"],
                  language |-> texts["language"],
                  orig_language |-> texts["orig_language"],
                  length |-> texts["length"],
                  country |-> texts["country"],
                  episode_num |-> texts["episode_num"],
                  is_new |-> find(h, el, "new") # 0,
                  premiere |-> texts["premiere"],
                  last_chance |-> texts["last_chance"]]]

-----------------------------------------------------------------------------
(* The normalizer on its own: a call of parse_xmltv_datetime on a token    *)

MaxPad == 1

RECURSIVE Spaces(_)
Spaces(n) == IF n = 0 THEN <<>> ELSE <<" ">> \o Spaces(n - 1)

\* whitespace runs of a given length: blanks, or blanks ending in a tab
WsRuns(n) == IF n = 0 THEN {<<>>} ELSE {Spaces(n), Spaces(n - 1) \o <<"\t">>}

Years == {<<"2", "0", "2", "4">>, <<"2", "0", "2", "3">>, <<"0", "0", "0", "0">>}
Months == {<<"0", "0">>, <<"0", "2">>, <<"0", "4">>, <<"1", "2">>, <<"1", "3">>}
Days == {<<"0", "0">>, <<"2", "9">>, <<"3", "0">>, <<"3", "1">>, <<"3", "2">>}
\* hour, minute and second: the last valid ones, and each one past its range
Times ==
    {<<"2", "3", "5", "9", "5", "9">>, <<"2", "4", "5", "9", "5", "9">>,
     <<"2", "3", "6", "0", "5", "9">>, <<"2", "3", "5", "9", "6", "0">>}

\* fifteen digits; the tokens are their prefixes
LongStamps ==
    {y \o mo \o d \o t \o <<"7">> :
        y \in Years, mo \in Months, d \in Days, t \in Times}

StampCuts == {0, 6, 8, 9, 10, 12, 13, 14, 15}

\* tokens with a decimal digit that is not an ASCII digit: in the year, the
\* month, the day, the hour and the minute, and made of such digits only
WideStamps ==
    {<<WideFive, "0", "2", "4", "0", "2", "1", "5">>,
     <<"2", "0", "2", "4", "0", WideFive, "1", "5">>,
     <<"2", "0", "2", "4", "0", "2", "1", WideFive>>,
     <<"2", "0", "2", "4", "0", "2", "1", "5", "0", WideFive>>,
     <<"2", "0", "2", "4", "0", "2", "1", "5", WideFive, "0">>,
     <<"2", "0", "2", "4", "0", "2", "1", "5", "0", "5", WideFive, "5">>,
     <<WideFive, WideFive, WideFive, WideFive, WideFive, WideFive, WideFive,
       WideFive>>}

Stamps ==
    {SubSeq(l, 1, n) : l \in LongStamps, n \in StampCuts}
        \cup {<<"2", "0", "2", "4", "0", "2", "2", "x">>}
        \cup WideStamps

Offsets ==
    {<<"+", "0", "0", "0", "0">>, <<"-", "0", "5", "0", "0">>,
     <<"-", "2", "3", "5", "9">>,
     <<"+", "2", "4", "0", "0">>, <<"+", "0", "0", "6", "0">>,
     <<"0", "5", "0", "0">>, <<"+", "0", "5", "0">>,
     <<"+", "0", WideFive, "0", "0">>, <<"+", "0", "5", WideFive, "0">>}

Suffixes ==
    {<<>>} \cup {g \o o : g \in UNION {WsRuns(n) : n \in 0..MaxPad}, o \in Offsets}

Tokens ==
    {l \o s \o x \o t :
        l \in {Spaces(n) : n \in 0..MaxPad}, s \in Stamps, x \in Suffixes,
        t \in {Spaces(n) : n \in 0..MaxPad}}

WalkIdle ==
    /\ handle = "none" /\ err = "" /\ src = <<>> /\ stack = <<>>
    /\ heap = <<>> /\ queue = <<>> /\ root = 0 /\ cur = 0
    /\ records = <<>> /\ processed = 0 /\ feeding = FALSE

InitDT ==
    /\ pc = "call"
    /\ value \in {None} \cup {Some(t) : t \in Tokens}
    /\ result = Returned(None)
    /\ WalkIdle

CallDT ==
    /\ pc = "call"
    /\ result' = parse_xmltv_datetime(value)
    /\ pc' = "return"
    /\ UNCHANGED <<handle, err, src, stack, heap, queue, root, cur, records,
                   processed, feeding, value>>

NextDT == CallDT

SpecDT == InitDT /\ [][NextDT]_vars

-----------------------------------------------------------------------------
(* The stated grammar of a timestamp token, written down independently of  *)
(* the code's way of matching it                                           *)

Min(S) == CHOOSE x \in S : \A y \in S : x <= y
Max(S) == CHOOSE x \in S : \A y \in S : x >= y

\* s without its leading and trailing whitespace
Trimmed(s) ==
    LET keep == {i \in 1..Len(s) : s[i] \notin Whitespace}
    IN  IF keep = {} THEN <<>> ELSE SubSeq(s, Min(keep), Max(keep))

\* <<n, k>>: t is n digits (n in 8, 10, 12, 14), then nothing (k = 0) or
\* k >= 1 whitespace characters, a sign and four digits
GrammarSplits(t) ==
    {nk \in {8, 10, 12, 14} \X (0..Len(t)) :
        LET n == nk[1]
            k == nk[2]
        IN  /\ Len(t) >= n
            /\ \A i \in 1..n : t[i] \in Digits
            /\ \/ k = 0 /\ Len(t) = n
               \/ /\ k >= 1
                  /\ Len(t) = n + k + 5
                  /\ \A i \in (n + 1)..(n + k) : t[i] \in Whitespace
                  /\ t[n + k + 1] \in {"+", "-"}
                  /\ \A i \in (n + k + 2)..(n + k + 5) : t[i] \in Digits}

TwoDigits(t, i) == 10 * DigitVal(t[i]) + DigitVal(t[i + 1])

MonthLengths == <<31, 28, 31, 30, 31, 30, 31, 31, 30, 31, 30, 31>>

CalendarDays(y, m) ==
    IF m = 2 /\ y % 4 = 0 /\ (y % 100 # 0 \/ y % 400 = 0) THEN 29
    ELSE MonthLengths[m]

\* the timestamp the digits of t denote, as the grammar reads them
Denoted(t, n, k) ==
    [year |-> 100 * TwoDigits(t, 1) + TwoDigits(t, 3),
     month |-> TwoDigits(t, 5),
     day |-> TwoDigits(t, 7),
     hour |-> IF n >= 10 THEN TwoDigits(t, 9) ELSE 0,
     minute |-> IF n >= 12 THEN TwoDigits(t, 11) ELSE 0,
     second |-> IF n >= 14 THEN TwoDigits(t, 13) ELSE 0,
     tz |-> IF k = 0 THEN None
            ELSE Some((IF t[n + k + 1] = "-" THEN -1 ELSE 1)
                        * (60 * TwoDigits(t, n + k + 2) + TwoDigits(t, n + k + 4)))]

\* the date and the time of day exist
ExistingDateTime(d) ==
    /\ d.year >= 1
    /\ d.month \in 1..12
    /\ d.day >= 1 /\ d.day <= CalendarDays(d.year, d.month)
    /\ d.hour <= 23 /\ d.minute <= 59 /\ d.second <= 59

\* what the normalizer returns for token t when the grammar is applied to t
\* as it stands and any signed 4-digit offset is taken
GrammarValueAsClaimed(t) ==
    LET splits == GrammarSplits(t)
    IN  IF splits = {} THEN None
        ELSE LET nk == CHOOSE x \in splits : TRUE
                 d == Denoted(t, nk[1], nk[2])
             IN  IF ExistingDateTime(d) THEN Some(d) ELSE None

DigitChars == <<"0", "1", "2", "3", "4", "5", "6", "7", "8", "9">>

Pad2(x) == <<DigitChars[(x \div 10) + 1], DigitChars[(x % 10) + 1]>>

\* a timestamp written back as the first n of its fourteen digits
Reformat(d, n) ==
    SubSeq(Pad2(d.year \div 100) \o Pad2(d.year % 100) \o Pad2(d.month)
             \o Pad2(d.day) \o Pad2(d.hour) \o Pad2(d.minute) \o Pad2(d.second),
           1, n)

\* the digit length of a token
DigitCount(s) == Cardinality({i \in 1..Len(s) : s[i] \in DecimalDigits})

-----------------------------------------------------------------------------
(* Claims about the normalizer, checked under SpecDT                       *)

\* C5 as stated: parse_xmltv_datetime never raises and returns exactly what
\* the grammar gives for the token as it stands: absent unless the token is
\* exactly 8/10/12/14 digits with an optional whitespace-separated signed
\* 4-digit offset denoting an existing date/time, else that timestamp.
C5_AsClaimed ==
    pc = "return" =>
        /\ ~result.raised
        /\ result.val = (IF value = None THEN None
                         ELSE GrammarValueAsClaimed(value[1]))

\* C6 as stated: a token without an offset that normalizes to a timestamp
\* is reproduced exactly by re-formatting the timestamp to the token's digit
\* length.
C6_AsClaimed ==
    (pc = "return" /\ value # None /\ result.val # None
        /\ result.val[1].tz = None)
    => Reformat(result.val[1], DigitCount(value[1])) = value[1]

-----------------------------------------------------------------------------
(* The extractor on its own: _parse_programme on one programme element     *)

MaxChildren == 2

ChildTags == {FieldTag[f] : f \in TextFields} \cup {"new", "icon"}

\* element.text of a child: None, blank, plain, padded
ChildTexts ==
    {None, Some(<<" ">>), Some(<<"a">>), Some(<<" ", "b", "\t">>)}

StartAttrs ==
    {None, Some(<<" ", "2", "0", "2", "4", "0", "2", "2", "9">>),
     Some(<<"2", "0", "2", "4">>)}

StopAttrs ==
    {None,
     Some(<<"2", "0", "2", "4", "0", "2", "2", "9", "2", "3", "5", "9",
            " ", "-", "0", "5", "0", "0">>),
     Some(<<"2", "0", "2", "3", "0", "2", "2", "9">>)}

ChannelAttrs == {None, Some(<<"c">>)}

\* the children of the element: any first child, then children that repeat
\* its tag or are a category or the new marker
ChildLists ==
    {<<>>} \cup
    UNION {{kids \in [1..n -> ChildTags \X ChildTexts] :
               \A i \in 2..n : kids[i][1] \in {kids[1][1], "category", "new"}} :
           n \in 1..MaxChildren}

\* the programme element is element 1, its children follow
ProgrammeHeap(attrib, kids) ==
    <<[tag |-> "programme", attrib |-> attrib, text |-> None,
       children |-> [i \in 1..Len(kids) |-> i + 1]]>>
        \o [i \in 1..Len(kids) |-> Element(kids[i][1], NoAttrib, kids[i][2])]

InitExtract ==
    /\ pc = "extract"
    /\ \E c \in ChannelAttrs, a \in StartAttrs, o \in StopAttrs, kids \in ChildLists :
          heap = ProgrammeHeap([channel |-> c, start |-> a, stop |-> o], kids)
    /\ handle = "none" /\ err = "" /\ src = <<>> /\ stack = <<>>
    /\ queue = <<>> /\ root = 0 /\ cur = 1
    /\ records = <<>> /\ processed = 0 /\ feeding = FALSE
    /\ value = None /\ result = Returned(None)

Extract ==
    /\ pc = "extract"
    /\ LET r == _parse_programme(heap, cur)
       IN  IF r.raised
           THEN pc' = "failed" /\ err' = "ValueError" /\ records' = records
           ELSE pc' = "extracted" /\ err' = err /\ records' = <<r.rec>>
    /\ UNCHANGED <<handle, src, stack, heap, queue, root, cur, processed,
                   feeding, value, result>>

NextExtract == Extract

SpecExtract == InitExtract /\ [][NextExtract]_vars

\* the positions among the children of element el that carry the tag
Occurrences(h, el, tag) ==
    {i \in 1..Len(h[el].children) : h[h[el].children[i]].tag = tag}

\* the field a child tag gives by the stated rule: the trimmed text of the
\* first occurrence, absent when there is none or its text is missing or blank
FirstTrimmedText(h, el, tag) ==
    LET occ == Occurrences(h, el, tag)
    IN  IF occ = {} THEN None
        ELSE LET first == h[h[el].children[Min(occ)]]
             IN  IF first.text = None \/ Trimmed(first.text[1]) = <<>> THEN None
                 ELSE Some(Trimmed(first.text[1]))

-----------------------------------------------------------------------------
(* Claims about the extractor, checked under SpecExtract                   *)

\* C7: every named text field of the record is the trimmed text of the first
\* child with the field's tag, absent when there is no such child or that
\* child's text is missing or blank; never an empty string.
C7_FirstTrimmedText ==
    pc = "extracted" =>
        \A f \in TextFields :
            /\ records[1][f] = FirstTrimmedText(heap, cur, FieldTag[f])
            /\ records[1][f] # Some(<<>>)

\* C7 witness: a tag occurs twice, with padded text first and other text
\* after it, and the record holds the first one trimmed.
C7_Witness ==
    /\ pc = "extracted"
    /\ Len(heap) = 3
    /\ heap[2].tag = "category" /\ heap[3].tag = "category"
    /\ heap[2].text = Some(<<" ", "b", "\t">>)
    /\ heap[3].text = Some(<<"a">>)
    /\ records[1].category = Some(<<"b">>)
    /\ records[1].title = None

\* C8: the extractor does not raise, the record is emitted, its raw start
\* and stop are the attributes verbatim whether or not they normalize, and
\* is_new is true exactly when a new child is present.
C8_RawKept ==
    /\ pc # "failed"
    /\ pc = "extracted" =>
        /\ Len(records) = 1
        /\ records[1].start = heap[cur].attrib.start
        /\ records[1].stop = heap[cur].attrib.stop
        /\ records[1].is_new = (Occurrences(heap, cur, "new") # {})

\* C8 witness: start does not normalize, stop denotes 29 February 2023, no
\* child is present; the record is emitted with both raw tokens and neither
\* timestamp.
C8_Witness ==
    /\ pc = "extracted"
    /\ heap[cur].children = <<>>
    /\ records[1].start = Some(<<"2", "0", "2", "4">>)
    /\ records[1].start_dt = None
    /\ records[1].stop = Some(<<"2", "0", "2", "3", "0", "2", "2", "9">>)
    /\ records[1].stop_dt = None
    /\ records[1].is_new = FALSE

-----------------------------------------------------------------------------
(* The walker: iter_parse pulling events from ET.iterparse                 *)
(*                                                                         *)
(* ET.iterparse reads the source a chunk at a time.  Each chunk is fed to  *)
(* the parser, which builds the elements of the chunk and queues their     *)
(* start/end events (and the ParseError, when the chunk is malformed)      *)
(* before the first of them is handed out; the next chunk is read when     *)
(* the queue is empty.  The source is drawn token by token as it is read.  *)

MaxTokens == 7
MaxChunk == 3

RootTags == {"tv", "rss"}
\* the childless elements of a document: a channel, a title with its text
Leaves ==
    {<<"channel", None>>, <<"title", Some(<<"a">>)>>,
     <<"title", Some(<<" ", "b">>)>>}

Ordinals == <<"1", "2", "3", "4", "5", "6", "7", "8", "9">>

Token(k, tag, attrib, text) ==
    [k |-> k, tag |-> tag, attrib |-> attrib, text |-> text]

BadToken == Token("bad", "", NoAttrib, None)
EndToken == Token("end", "", NoAttrib, None)

Event(kind, el) == [kind |-> kind, el |-> el]
ErrorEvent == Event("error", 0)

Init ==
    /\ pc = "created"
    /\ handle = "none"
    /\ err = ""
    /\ src = <<>>
    /\ stack = <<>>
    /\ heap = <<>>
    /\ queue = <<>>
    /\ root = 0
    /\ cur = 0
    /\ records = <<>>
    /\ processed = 0
    /\ feeding = FALSE
    /\ value = None
    /\ result = Returned(None)

\* the first next(): the body runs up to ET.iterparse, which opens the file
Open ==
    /\ pc = "created"
    /\ \/ handle' = "open" /\ pc' = "loop" /\ err' = err
       \/ handle' = handle /\ pc' = "failed" /\ err' = "FileNotFoundError"
    /\ UNCHANGED <<src, stack, heap, queue, root, cur, records, processed,
                   feeding, value, result>>

\* the source can be read further: the queue has been drained, or the chunk
\* being fed has more in it
CanRead ==
    /\ pc = "loop"
    /\ handle = "open"
    /\ queue = <<>> \/ feeding
    /\ Len(queue) < MaxChunk
    /\ Len(src) < MaxTokens

\* TreeBuilder.start: a new element, appended to the element on top of the stack
Started(h, st, e) ==
    IF st = <<>> THEN Append(h, e)
    ELSE Append([h EXCEPT ![st[Len(st)]].children = Append(@, Len(h) + 1)], e)

ProgrammeCount(toks) ==
    Cardinality({i \in 1..Len(toks) : toks[i].k = "start" /\ toks[i].tag = "programme"})

\* a start tag: the root, or a programme inside an open element
ReadStart ==
    /\ CanRead
    /\ \E t \in IF src = <<>>
                THEN {Token("start", r, NoAttrib, None) : r \in RootTags}
                ELSE IF stack = <<>> THEN {}
                ELSE {Token("start", "programme",
                            [NoAttrib EXCEPT
                                !.channel = Some(<<Ordinals[ProgrammeCount(src) + 1]>>)],
                            None)} :
          /\ src' = Append(src, t)
          /\ heap' = Started(heap, stack, Element(t.tag, t.attrib, t.text))
          /\ stack' = Append(stack, Len(heap) + 1)
          /\ queue' = Append(queue, Event("start", Len(heap) + 1))
    /\ feeding' = TRUE
    /\ UNCHANGED <<pc, handle, err, root, cur, records, processed, value, result>>

\* a whole childless element with its text, inside an open element
ReadLeaf ==
    /\ CanRead
    /\ stack # <<>>
    /\ \E l \in Leaves :
          /\ src' = Append(src, Token("leaf", l[1], NoAttrib, l[2]))
          /\ heap' = Started(heap, stack, Element(l[1], NoAttrib, l[2]))
          /\ queue' = queue \o <<Event("start", Len(heap) + 1),
                                 Event("end", Len(heap) + 1)>>
    /\ feeding' = TRUE
    /\ UNCHANGED <<pc, handle, err, stack, root, cur, records, processed,
                   value, result>>

\* the end tag of the open element
ReadEnd ==
    /\ CanRead
    /\ stack # <<>>
    /\ src' = Append(src, EndToken)
    /\ stack' = SubSeq(stack, 1, Len(stack) - 1)
    /\ queue' = Append(queue, Event("end", stack[Len(stack)]))
    /\ feeding' = TRUE
    /\ UNCHANGED <<pc, handle, err, heap, root, cur, records, processed,
                   value, result>>

\* A mutant of FeedError: the events queued before the error are lost.
FeedErrorDropping(q) == <<ErrorEvent>>

\* XMLPullParser.feed on markup it cannot tokenize: the ParseError is queued
\* behind the events already made
FeedError(q) == Append(q, ErrorEvent)

\* malformed markup ends the chunk
ReadBad ==
    /\ CanRead
    /\ src' = Append(src, BadToken)
    /\ queue' = FeedError(queue)
    /\ feeding' = FALSE
    /\ UNCHANGED <<pc, handle, err, stack, heap, root, cur, records, processed,
                   value, result>>

\* source.read() returns nothing: the parser is closed, which raises
\* ParseError unless the root element has been closed; iterparse's finally
\* closes the file either way
EndOfFile ==
    /\ pc = "loop"
    /\ handle = "open"
    /\ queue = <<>>
    /\ IF src # <<>> /\ stack = <<>>
       THEN pc' = "done" /\ err' = err
       ELSE pc' = "failed" /\ err' = "ParseError"
    /\ handle' = "closed"
    /\ UNCHANGED <<src, stack, heap, queue, root, cur, records, processed,
                   feeding, value, result>>

\* source.read() raises: iterparse's finally closes the file
ReadFails ==
    /\ pc = "loop"
    /\ handle = "open"
    /\ queue = <<>>
    /\ pc' = "failed"
    /\ err' = "OSError"
    /\ handle' = "closed"
    /\ UNCHANGED <<src, stack, heap, queue, root, cur, records, processed,
                   feeding, value, result>>

\* A mutant of RootTagOk: the root tag is not checked.
RootTagAny(tag) == TRUE

\* the root check of iter_parse
RootTagOk(tag) == tag = "tv"

\* A mutant of IsProgrammeBoundary: programmes are taken at their start tag.
IsProgrammeStart(h, ev) == ev.kind = "start" /\ h[ev.el].tag = "programme"

\* the event on which iter_parse emits a record
IsProgrammeBoundary(h, ev) == ev.kind = "end" /\ h[ev.el].tag = "programme"

\* Element.clear()
clear(h, el) ==
    [h EXCEPT ![el] = [tag |-> @.tag, attrib |-> NoAttrib, text |-> None,
                       children |-> <<>>]]

\* one turn of the for loop, up to the yield
HandleEvent ==
    /\ pc = "loop"
    /\ queue # <<>>
    /\ LET ev == Head(queue)
           rootNow == IF root = 0 /\ ev.kind = "start" THEN ev.el ELSE root
       IN  /\ queue' = Tail(queue)
           /\ feeding' = FALSE
           /\ \/ /\ ev.kind = "error"
                 /\ pc' = "failed" /\ err' = "ParseError" /\ handle' = "closed"
                 /\ UNCHANGED <<root, cur, records, processed>>
              \/ /\ ev.kind # "error"
                 /\ root = 0 /\ ev.kind = "start" /\ ~RootTagOk(heap[ev.el].tag)
                 /\ pc' = "failed" /\ err' = "ValueError"
                 /\ UNCHANGED <<handle, root, cur, records, processed>>
              \/ /\ ev.kind # "error"
                 /\ ~(root = 0 /\ ev.kind = "start" /\ ~RootTagOk(heap[ev.el].tag))
                 /\ ~IsProgrammeBoundary(heap, ev)
                 /\ root' = rootNow
                 /\ UNCHANGED <<pc, err, handle, cur, records, processed>>
              \/ /\ ev.kind # "error"
                 /\ ~(root = 0 /\ ev.kind = "start" /\ ~RootTagOk(heap[ev.el].tag))
                 /\ IsProgrammeBoundary(heap, ev)
                 /\ root' = rootNow
                 /\ processed' = processed + 1
                 /\ LET r == _parse_programme(heap, ev.el)
                    IN  IF r.raised
                        THEN /\ pc' = "failed" /\ err' = "ValueError"
                             /\ UNCHANGED <<cur, records>>
                        ELSE /\ pc' = "yielded" /\ err' = err
                             /\ cur' = ev.el
                             /\ records' = Append(records, r.rec)
                 /\ UNCHANGED handle
    /\ UNCHANGED <<src, stack, heap, value, result>>

\* A mutant of Resume: the yielded record is a view of the element, and is
\* emptied with it.
ResumeAliased ==
    /\ pc = "yielded"
    /\ heap' = IF root # 0 THEN clear(clear(heap, cur), root) ELSE clear(heap, cur)
    /\ records' = [records EXCEPT ![Len(records)] =
                      [@ EXCEPT !.channel = None, !.title = None]]
    /\ pc' = "loop"
    /\ UNCHANGED <<handle, err, src, stack, queue, root, cur, processed,
                   feeding, value, result>>

\* the consumer asks for the next record: element.clear(), root.clear(), and
\* the loop goes on
Resume ==
    /\ pc = "yielded"
    /\ heap' = IF root # 0 THEN clear(clear(heap, cur), root) ELSE clear(heap, cur)
    /\ pc' = "loop"
    /\ UNCHANGED <<handle, err, src, stack, queue, root, cur, records,
                   processed, feeding, value, result>>

\* the consumer stops: the generator is closed where it is suspended (or
\* before it ever ran).  Nothing in iter_parse closes the iterparse iterator.
Close ==
    /\ pc \in {"created", "yielded"}
    /\ pc' = "closed"
    /\ UNCHANGED <<handle, err, src, stack, heap, queue, root, cur, records,
                   processed, feeding, value, result>>

\* the abandoned iterparse iterator is collected at some later time, and
\* its file with it
Finalize ==
    /\ pc \in {"closed", "failed"}
    /\ handle = "open"
    /\ handle' = "closed"
    /\ UNCHANGED <<pc, err, src, stack, heap, queue, root, cur, records,
                   processed, feeding, value, result>>

Next ==
    \/ Open
    \/ ReadStart
    \/ ReadLeaf
    \/ ReadEnd
    \/ ReadBad
    \/ EndOfFile
    \/ ReadFails
    \/ HandleEvent
    \/ Resume
    \/ Close
    \/ Finalize

Spec == Init /\ [][Next]_vars

-----------------------------------------------------------------------------
(* What the source read so far says, computed from the tokens alone        *)

RECURSIVE ClosingsFrom(_, _)
\* the channel attributes of the programme elements of toks, in the order of
\* their end tags; open holds the start tokens not yet closed
ClosingsFrom(toks, open) ==
    IF toks = <<>> THEN <<>>
    ELSE LET t == Head(toks)
         IN  CASE t.k = "start" -> ClosingsFrom(Tail(toks), Append(open, t))
               [] t.k = "leaf" -> ClosingsFrom(Tail(toks), open)
               [] t.k = "end" ->
                    (IF open[Len(open)].tag = "programme"
                     THEN <<open[Len(open)].attrib.channel>> ELSE <<>>)
                        \o ClosingsFrom(Tail(toks), SubSeq(open, 1, Len(open) - 1))
               [] OTHER -> <<>>

Closings(toks) == ClosingsFrom(toks, <<>>)

Channels(recs) == [i \in 1..Len(recs) |-> recs[i].channel]

\* the tokens are a whole document with root tv: every start tag has its end
\* tag and nothing is malformed
CompleteTvDocument(toks) ==
    /\ toks # <<>>
    /\ toks[1].k = "start" /\ toks[1].tag = "tv"
    /\ \A i \in 1..Len(toks) : toks[i].k # "bad"
    /\ Cardinality({i \in 1..Len(toks) : toks[i].k = "start"})
         = Cardinality({i \in 1..Len(toks) : toks[i].k = "end"})

RootMismatch == src # <<>> /\ src[1].k = "start" /\ src[1].tag # "tv"

Range(f) == {f[i] : i \in DOMAIN f}

\* the children of the root element whose end tag has been read and that
\* the root still holds
CompletedUnderRoot ==
    IF heap = <<>> THEN {}
    ELSE {i \in 1..Len(heap[1].children) : heap[1].children[i] \notin Range(stack)}

-----------------------------------------------------------------------------
(* Claims about the walker, checked under Spec                             *)

\* C1: a walk that ends normally has yielded exactly one record per
\* programme element of the document, in the order of their end tags; and
\* a whole document with root tv is never rejected as malformed.
C1_FullWalk ==
    /\ pc = "done" =>
        /\ CompleteTvDocument(src)
        /\ Len(records) = ProgrammeCount(src)
        /\ Channels(records) = Closings(src)
    /\ (pc = "failed" /\ err \in {"ValueError", "ParseError"})
        => ~CompleteTvDocument(src)

\* C1 witness: a finished walk of a document with a programme nested in
\* another, where the inner one, opened second, was yielded first.
C1_Witness ==
    /\ pc = "done"
    /\ Len(records) = 2
    /\ records[1].channel = Some(<<"2">>)
    /\ records[2].channel = Some(<<"1">>)

\* C2: when the outermost element is not tv, no record is ever yielded and
\* the first pull ends with ValueError: the walk is either still before its
\* first event, which is the root's start, or has failed with ValueError.
C2_RootMismatchFails ==
    RootMismatch =>
        /\ records = <<>>
        /\ pc \in {"loop", "failed"}
        /\ pc = "failed" => err = "ValueError"
        /\ pc = "loop" => (root = 0 /\ queue # <<>> /\ Head(queue) = Event("start", 1))

\* C2 witness: the walk failed with ValueError on a document whose root is
\* not tv and that holds a complete programme element.
C2_Witness ==
    /\ pc = "failed"
    /\ err = "ValueError"
    /\ RootMismatch
    /\ Closings(src) # <<>>
    /\ records = <<>>

\* C3 as stated: a walk that ends with an error has yielded no record.
C3_AsClaimed == pc = "failed" => records = <<>>

\* C3 amended: a root mismatch or a failure to open the source ends the walk
\* before any record; malformed markup or a read failure ends it after
\* exactly the records of the programme elements closed before that point,
\* in order.
C3_Outcomes ==
    pc = "failed" =>
        /\ err \in {"ValueError", "FileNotFoundError", "ParseError", "OSError"}
        /\ err \in {"ValueError", "FileNotFoundError"} => records = <<>>
        /\ err \in {"ParseError", "OSError"} => Channels(records) = Closings(src)

\* C3 witness: the walk failed on malformed markup after a record was yielded.
C3_Witness ==
    /\ pc = "failed"
    /\ err = "ParseError"
    /\ src # <<>>
    /\ src[Len(src)] = BadToken
    /\ Len(records) >= 1

\* C4 as stated: stopping early raises nothing, and no walk that has ended
\* (normally, early or with an error) leaves the source open.
C4_AsClaimed ==
    /\ pc = "closed" => err = ""
    /\ pc \in {"done", "failed", "closed"} => handle # "open"

\* C9 as stated: the root never holds more than one completed child subtree.
C9_AsClaimed == Cardinality(CompletedUnderRoot) <= 1

\* C10: no step changes a record already yielded.
C10_RecordsFrozen ==
    [][/\ Len(records') >= Len(records)
       /\ \A i \in 1..Len(records) : records'[i] = records[i]]_vars

\* C10 witness: after a record with a title was yielded, its element and the
\* root have been cleared, and the record still holds what was yielded.
C10_Witness ==
    /\ pc = "loop"
    /\ Len(records) >= 1
    /\ heap[cur].attrib.channel = None
    /\ heap[cur].children = <<>>
    /\ records[Len(records)].channel # None
    /\ records[Len(records)].title # None

====
